---- MODULE Spec2Model ----
(***************************************************************************)
(* Tool-calling agent loop of the coding-agent CLI: ClaudeAgent.sendMessage *)
(* (agents/claude.ts), the tool executors (tools/*.ts), the permission     *)
(* gate (tools/permissions.ts) and the CLI line handler (cli/index.ts).    *)
(*                                                                         *)
(* Every action is one run-to-suspension segment of the JavaScript code:   *)
(* it starts where an awaited promise settles (a line arrives, the model   *)
(* answers, the human answers the prompt, a tool operation completes) and  *)
(* runs until the next await that really suspends.                         *)
(***************************************************************************)
EXTENDS Integers, Sequences, FiniteSets, TLC

----------------------------------------------------------------------------
(* Bounds of the model *)

\* content blocks in one model response
MaxBlocks == 2

\* model calls answered in one CLI session
MaxModelCalls == 1

\* user messages submitted in one CLI session
MaxMessages == 1

\* /clear commands in one CLI session
MaxClears == 1

\* message lines taken while a processMessage was in flight
MaxOverlap == 1

\* tools in one list given to the constructor of the tool Map
MaxRegistered == 2

----------------------------------------------------------------------------
(* Capability registry *)

fileSystemTools == <<"read_file", "write_file", "list_directory">>

commandTools == <<"execute_command">>

gitTools == <<"git_status", "git_diff", "git_commit", "git_create_branch", "git_push">>

webTools == <<"web_search", "fetch_webpage">>

allTools == fileSystemTools \o commandTools \o gitTools \o webTools

createLogLineTools == <<"logline_prompt_fetch", "logline_memory_store", "logline_memory_search">>

\* the value of a variable or field that was given none
JsUndefined == "undefined"

\* a name the model may emit that no source registers
UnregisteredName == "no_such_tool"

Range(s) == {s[i] : i \in 1..Len(s)}

\* Map.set in insertion order: a name already present keeps its position
MapSet(m, name) == IF name \in Range(m) THEN m ELSE Append(m, name)

RECURSIVE MapSetAll(_, _)
MapSetAll(m, names) ==
  IF names = <<>> THEN m ELSE MapSetAll(MapSet(m, Head(names)), Tail(names))

MutAgentToolsAlwaysLogLine(hasLogLineClient) ==
  MapSetAll(MapSetAll(<<>>, allTools), createLogLineTools)

\* new ClaudeAgent(config): this.tools after the constructor
AgentTools(hasLogLineClient) ==
  MapSetAll(MapSetAll(<<>>, allTools),
            IF hasLogLineClient THEN createLogLineTools ELSE <<>>)

\* a tool object: its name, the list it comes from and its place in that list
ToolObject(name, from, at) == [name |-> name, from |-> from, at |-> at]

\* the tool objects of a list of names
ToolList(names, from) == [i \in 1..Len(names) |-> ToolObject(names[i], from, i)]

MutMapSetToolKeepsFirst(m, tool) ==
  IF \E i \in 1..Len(m) : m[i].name = tool.name THEN m ELSE Append(m, tool)

\* this.tools.set(tool.name, tool): the value of a key already present is
\* replaced where the key stands, a new key goes to the end
MapSetTool(m, tool) ==
  IF \E i \in 1..Len(m) : m[i].name = tool.name
    THEN [i \in 1..Len(m) |-> IF m[i].name = tool.name THEN tool ELSE m[i]]
    ELSE Append(m, tool)

RECURSIVE MapSetTools(_, _)
MapSetTools(m, list) ==
  IF list = <<>> THEN m ELSE MapSetTools(MapSetTool(m, Head(list)), Tail(list))

\* the constructor's two for loops over the tool objects
Construct(localList, logLineList, hasLogLineClient) ==
  MapSetTools(MapSetTools(<<>>, localList),
              IF hasLogLineClient THEN logLineList ELSE <<>>)

\* this.tools.get(name)
MapGet(m, name) ==
  IF \E i \in 1..Len(m) : m[i].name = name
    THEN m[CHOOSE i \in 1..Len(m) : m[i].name = name]
    ELSE JsUndefined

\* tool lists of at most MaxRegistered names
NameLists(pool) == UNION {[1..k -> pool] : k \in 0..MaxRegistered}

\* the names the constructions are tried on: two local ones, one LogLine one
NamePool == {"read_file", "web_search", "logline_memory_store"}

NoBuild ==
  [localTools |-> <<>>, logLineTools |-> <<>>, hasLogLineClient |-> FALSE, tools |-> <<>>,
   done |-> FALSE, got |-> <<>>]

\* the constructions tried: every pair of short lists, and the lists the
\* program imports
BuildInputs ==
  {[NoBuild EXCEPT !.localTools = ToolList(l, "local"),
                   !.logLineTools = ToolList(g, "logline"),
                   !.hasLogLineClient = c] :
     l \in NameLists(NamePool) \cup {allTools},
     g \in NameLists(NamePool) \cup {createLogLineTools},
     c \in BOOLEAN}

\* toolToAnthropicSchema(tool).name
toolToAnthropicSchema(name) == [name |-> name]

\* tools: Array.from(this.tools.values()).map(toolToAnthropicSchema), the names
\* a model call offers
Offered(registry) == {toolToAnthropicSchema(registry[i]).name : i \in 1..Len(registry)}

\* this.tools.get(name) is defined
Resolves(registry, name) == \E i \in 1..Len(registry) : registry[i] = name

\* the names whose execute() calls requestPermission, with the action it passes
PermissionAction(name) ==
  CASE name \in {"read_file", "list_directory"} -> "read"
    [] name = "write_file" -> "write"
    [] name \in {"execute_command", "git_commit", "git_create_branch", "git_push",
                 "web_search", "fetch_webpage"} -> "execute"
    [] OTHER -> "none"

\* operations a tool awaits before it calls requestPermission
PreGateOps(name) == IF name = "git_push" THEN <<"git.status">> ELSE <<>>

\* operations a tool awaits after the permission check (or from the start when
\* its execute() has no permission check), in program order
ToolOps(name) ==
  CASE name = "read_file" -> <<"fs.readFile">>
    [] name = "write_file" -> <<"fs.mkdir", "fs.writeFile">>
    [] name = "list_directory" -> <<"fs.readdir">>
    [] name = "execute_command" -> <<"exec">>
    [] name = "git_status" -> <<"git.status">>
    [] name = "git_diff" -> <<"git.diff">>
    [] name = "git_commit" -> <<"git.add", "git.commit">>
    [] name = "git_create_branch" -> <<"git.checkoutLocalBranch">>
    [] name = "git_push" -> <<"git.push">>
    [] name = "web_search" -> <<"fetch">>
    [] name = "fetch_webpage" -> <<"fetch">>
    [] name = "logline_prompt_fetch" -> <<"client.boot">>
    [] name = "logline_memory_store" -> <<"client.boot">>
    [] name = "logline_memory_search" -> <<"client.boot">>
    [] OTHER -> <<>>

\* tools whose successful result can carry the empty string as output
\* (empty file, empty directory, silent command, empty page, empty prompt)
EmptyOutputTools ==
  {"read_file", "list_directory", "execute_command", "fetch_webpage", "logline_prompt_fetch"}

\* tools whose successful result has a data field
DataTools ==
  {"list_directory", "execute_command", "git_status", "git_commit", "web_search",
   "fetch_webpage", "logline_prompt_fetch", "logline_memory_store", "logline_memory_search"}

----------------------------------------------------------------------------
(* Permission gate: answer normalisation and decision *)

\* an answer line is the sequence of its characters

UpperToLower ==
  [c \in {"A", "E", "L", "N", "O", "R", "S", "T", "U", "V", "W", "Y"} |->
     CASE c = "A" -> "a" [] c = "E" -> "e" [] c = "L" -> "l" [] c = "N" -> "n"
       [] c = "O" -> "o" [] c = "R" -> "r" [] c = "S" -> "s" [] c = "T" -> "t"
       [] c = "U" -> "u" [] c = "V" -> "v" [] c = "W" -> "w" [] c = "Y" -> "y"]

\* String.prototype.toLowerCase
toLowerCase(s) ==
  [i \in 1..Len(s) |-> IF s[i] \in DOMAIN UpperToLower THEN UpperToLower[s[i]] ELSE s[i]]

WhiteSpace == {" ", "\t"}

RECURSIVE TrimStart(_)
TrimStart(s) ==
  IF s # <<>> /\ Head(s) \in WhiteSpace THEN TrimStart(Tail(s)) ELSE s

RECURSIVE TrimEnd(_)
TrimEnd(s) ==
  IF s # <<>> /\ s[Len(s)] \in WhiteSpace THEN TrimEnd(SubSeq(s, 1, Len(s) - 1)) ELSE s

\* String.prototype.trim
trim(s) == TrimEnd(TrimStart(s))

\* const normalized = answer.toLowerCase().trim()
Normalize(answer) == trim(toLowerCase(answer))

\* the command words of the line handler's switch
SlashHelp == <<"/", "h", "e", "l", "p">>
SlashConfig == <<"/", "c", "o", "n", "f", "i", "g">>
SlashAuto == <<"/", "a", "u", "t", "o">>
SlashClear == <<"/", "c", "l", "e", "a", "r">>
SlashExit == <<"/", "e", "x", "i", "t">>
SlashQuit == <<"/", "q", "u", "i", "t">>

\* String.prototype.startsWith
startsWith(s, prefix) ==
  Len(s) >= Len(prefix) /\ SubSeq(s, 1, Len(prefix)) = prefix

MutClassifyCaseSensitive(line) ==
  LET message == trim(line)
  IN  IF message = <<>> THEN "empty"
      ELSE IF startsWith(message, <<"/">>)
             THEN CASE message = SlashHelp -> "help"
                    [] message = SlashConfig -> "config"
                    [] message = SlashAuto -> "auto"
                    [] message = SlashClear -> "clear"
                    [] message \in {SlashExit, SlashQuit} -> "exit"
                    [] OTHER -> "unknown"
             ELSE "message"

\* rl.on('line'): the branch the handler takes for a line
Classify(line) ==
  LET message == trim(line)
      command == toLowerCase(message)
  IN  IF message = <<>> THEN "empty"
      ELSE IF startsWith(message, <<"/">>)
             THEN CASE command = SlashHelp -> "help"
                    [] command = SlashConfig -> "config"
                    [] command = SlashAuto -> "auto"
                    [] command = SlashClear -> "clear"
                    [] command \in {SlashExit, SlashQuit} -> "exit"
                    [] OTHER -> "unknown"
             ELSE "message"

\* the lines typed at the prompt
InputLines ==
  {SlashHelp, SlashConfig, SlashAuto, SlashClear, SlashExit, SlashQuit,
   <<" ", "/", "A", "U", "T", "O", " ">>,
   <<"/", "u", "n", "d", "o">>,
   <<"/", "a", "u", "t", "o", " ", "o", "n">>,
   <<>>,
   <<" ", "\t">>,
   <<"h", "i">>,
   <<"s", "a", "y", " ", "/", "e", "x", "i", "t">>}

YES == <<"y", "e", "s">>
Y == <<"y">>
ALWAYS == <<"a", "l", "w", "a", "y", "s">>
NEVER == <<"n", "e", "v", "e", "r">>
NO == <<"n", "o">>

\* the lines the human may type at a permission prompt
AnswerLines ==
  {YES, Y, ALWAYS, NEVER, NO, <<>>, <<" ", "Y", "E", "S", "\t">>}

DeniedReason == "User denied permission"

\* if (normalized === 'yes' || normalized === 'y' || normalized === 'always')
GateOpenAnswers == {YES, Y, ALWAYS}

MutDecideFailOpen(answer) ==
  IF Normalize(answer) \notin {NO, NEVER}
    THEN [approved |-> TRUE, reason |-> JsUndefined]
    ELSE [approved |-> FALSE, reason |-> DeniedReason]

\* requestPermission after the prompt was answered
Decide(answer) ==
  IF Normalize(answer) \in GateOpenAnswers
    THEN [approved |-> TRUE, reason |-> JsUndefined]
    ELSE [approved |-> FALSE, reason |-> DeniedReason]

MutSkipsPromptNever(flag) == FALSE

\* if (autoApproveEnabled) { console.log(logMessage); return { approved: true } }
SkipsPrompt(flag) == flag

\* the audit line printed on the auto-approve path
AuditLine(action) ==
  CASE action = "read" -> "Auto-approved: Reading"
    [] action = "write" -> "Auto-approved: Writing to"
    [] action = "delete" -> "Auto-approved: Deleting"
    [] action = "execute" -> "Auto-approved: Running"

MutProceedsAlways(permission) == TRUE

\* if (!permission.approved) return { success: false, error: ... }
Proceeds(permission) == permission.approved

----------------------------------------------------------------------------
(* Values *)

\* the content of a plain text message is a sequence of text tokens; string
\* concatenation is sequence concatenation
Token(t, n) == [t |-> t, n |-> n]

\* `SYSTEM CONTEXT: ${context}`
SystemContext == <<Token("SYSTEM CONTEXT", 0)>>

UserText(n) == <<Token("message", n)>>

\* block.text of the text block with identity n
BlockText(n) == <<Token("text", n)>>

TextTurn(role, text) == [role |-> role, kind |-> "text", content |-> text]

\* { role: 'assistant', content: assistantContent }
BlocksTurn(blocks) == [role |-> "assistant", kind |-> "blocks", content |-> blocks]

\* { role: 'user', content: [{ type: 'tool_result', tool_use_id, content }] }
ToolResultTurn(id, content) ==
  [role |-> "user", kind |-> "tool_result",
   content |-> <<[type |-> "tool_result", tool_use_id |-> id, content |-> content]>>]

NoResult == [success |-> FALSE, output |-> JsUndefined, data |-> JsUndefined, error |-> "-"]

DeniedResult(permission) ==
  [success |-> FALSE, output |-> JsUndefined, data |-> JsUndefined,
   error |-> IF permission.reason # JsUndefined THEN permission.reason ELSE "Permission denied"]

OpError == "operation failed"

\* the catch block of execute()
FailureResult(name) ==
  [success |-> FALSE,
   output |-> IF name = "execute_command" THEN "text" ELSE JsUndefined,
   data |-> JsUndefined, error |-> OpError]

SuccessResult(name, empty) ==
  [success |-> TRUE,
   output |-> IF empty THEN "" ELSE "text",
   data |-> IF name \in DataTools THEN "data" ELSE JsUndefined,
   error |-> JsUndefined]

\* result.success ? result.output || JSON.stringify(result.data) : `Error: ${result.error}`
ToolResultContent(result) ==
  IF result.success
    THEN IF result.output \notin {"", JsUndefined}
           THEN <<result.output>>
           ELSE IF result.data = JsUndefined THEN <<JsUndefined>>
                ELSE <<"JSON", result.data>>
    ELSE <<"Error: ", result.error>>

NoPermission == [approved |-> FALSE, reason |-> "unasked"]

\* what one tool.execute() invocation has done so far
NoInvocation ==
  [tool |-> "-", id |-> 0, asked |-> 0, action |-> "none", flagAtAsk |-> FALSE,
   prompts |-> 0, audit |-> <<>>, answered |-> FALSE, answer |-> <<>>,
   permission |-> NoPermission, ops |-> <<>>, finished |-> FALSE, result |-> NoResult]

NoResponse == [content |-> <<>>, stop_reason |-> "-"]

\* a content block as the log keeps it: the name and the input of a tool_use
\* block are read by the dispatch only, the log is compared by type and id
Block(type, id) == [type |-> type, id |-> id]

NoLocals == [assistantContent |-> <<>>, textContent |-> <<>>, unknown |-> <<>>, hit |-> 0]

----------------------------------------------------------------------------
(* State *)

VARIABLES
  logLineConfigured,   \* getLogLineConfig() has apiUrl, tenant and token
  agent,               \* cli: let agent: ClaudeAgent | null
  tools,               \* ClaudeAgent.tools, the names in Map order
  history,             \* ClaudeAgent.conversationHistory
  autoApproveEnabled,  \* permissions: let autoApproveEnabled
  pc,                  \* where the session is suspended
  msgs,                \* user messages submitted so far
  clears,              \* /clear commands so far
  modelCalls,          \* model calls answered so far
  response,            \* sendMessage: const response (the latest one)
  loc,                 \* sendMessage: assistantContent, textContent of this round
  inv,                 \* the tool.execute() invocation in progress
  streamed,            \* processMessage: responseText (chunks given to onStream)
  outcome,             \* how the latest sendMessage ended (and on which stop_reason)
  currentSessionId,    \* cli: let currentSessionId
  cliHistory,          \* cli: let conversationHistory
  persisted,           \* config: the messages written by addMessage
  input,               \* cli line handler: the line it was last given
  parked,              \* processMessage calls suspended behind the current one
  overlaps,            \* lines taken while a processMessage was in flight
  built                \* a construction of the tool Map: the tool lists and the Map

vars ==
  <<logLineConfigured, agent, tools, history, autoApproveEnabled, pc, msgs, clears,
    modelCalls, response, loc, inv, streamed, outcome, currentSessionId, cliHistory,
    persisted, input, parked, overlaps, built>>

\* what the agent's own steps never write
lineFrame == <<input, parked, overlaps, built>>

InitSession ==
  /\ logLineConfigured \in BOOLEAN
  /\ agent = "null"
  /\ tools = <<>>
  /\ history = <<>>
  /\ autoApproveEnabled = FALSE
  /\ pc = "idle"
  /\ msgs = 0
  /\ clears = 0
  /\ modelCalls = 0
  /\ response = NoResponse
  /\ loc = NoLocals
  /\ inv = NoInvocation
  /\ streamed = <<>>
  /\ outcome = [kind |-> "none", text |-> <<>>, stop |-> "-"]
  /\ currentSessionId = 1
  /\ cliHistory = <<>>
  /\ persisted = <<>>
  /\ input = <<>>
  /\ parked = <<>>
  /\ overlaps = 0

Init == InitSession /\ built = NoBuild

----------------------------------------------------------------------------
(* The model collaborator: client.messages.create *)

\* names a tool_use block may carry: every name the request offers (tools:
\* Array.from(this.tools.values())), and one that it does not
EmittableNames(registry) == Range(registry) \cup {UnregisteredName}

BlockShapes(registry) ==
  {[type |-> "text", name |-> "-"]} \cup
  {[type |-> "tool_use", name |-> n] : n \in EmittableNames(registry)}

\* block ids are unique across the session (the API mints them)
BlockId(c, i) == c * (MaxBlocks + 1) + i

ResponseContent(shape, c) ==
  [i \in 1..Len(shape) |->
     [type |-> shape[i].type, name |-> shape[i].name, id |-> BlockId(c, i)]]

HasToolUse(content) == \E i \in 1..Len(content) : content[i].type = "tool_use"

\* stop_reason tool_use comes with a tool_use block and end_turn without one;
\* max_tokens (standing for every other stop reason) can cut any response short
StopReasons(content) ==
  IF HasToolUse(content) THEN {"tool_use", "max_tokens"} ELSE {"end_turn", "max_tokens"}

\* the blocks of a response as the state keeps them
Kept(content) == [i \in 1..Len(content) |-> Block(content[i].type, content[i].id)]

----------------------------------------------------------------------------
(* Tool executors and the permission gate, as run-to-suspension steps *)

\* start the tool's operations
StartOps(i) == [inv |-> [i EXCEPT !.ops = Append(@, ToolOps(i.tool)[1])], pc |-> "op"]

\* execute() after `await requestPermission(...)`; the answer line was a local
\* of requestPermission
GateContinue(i) ==
  LET j == [i EXCEPT !.answered = FALSE, !.answer = <<>>]
  IN  IF Proceeds(j.permission)
        THEN StartOps(j)
        ELSE [inv |-> [j EXCEPT !.finished = TRUE, !.result = DeniedResult(j.permission)],
              pc |-> "returned"]

\* requestPermission up to its return (auto-approve) or to the prompt
requestPermission(i, flag) ==
  LET action == PermissionAction(i.tool)
      asked == [i EXCEPT !.asked = @ + 1, !.action = action, !.flagAtAsk = flag]
  IN  IF SkipsPrompt(flag)
        THEN [inv |-> [asked EXCEPT !.audit = Append(@, AuditLine(action)),
                                    !.permission = [approved |-> TRUE, reason |-> JsUndefined]],
              pc |-> "gate"]
        ELSE [inv |-> [asked EXCEPT !.prompts = @ + 1], pc |-> "prompt"]

\* execute() from the point where its permission check (if it has one) starts
EnterTool(i, flag) ==
  IF PermissionAction(i.tool) = "none" THEN StartOps(i) ELSE requestPermission(i, flag)

\* tool.execute(block.input) up to its first suspension
Execute(name, id, flag) ==
  LET i == [NoInvocation EXCEPT !.tool = name, !.id = id]
  IN  IF PreGateOps(name) # <<>>
        THEN [inv |-> [i EXCEPT !.ops = PreGateOps(name)], pc |-> "pre"]
        ELSE EnterTool(i, flag)

----------------------------------------------------------------------------
(* ClaudeAgent.sendMessage *)

\* for (const block of response.content): runs to the first registered tool_use
\* block (hit = its index) or to the end of the content (hit = 0)
RECURSIVE ForBlocks(_, _, _, _)
ForBlocks(content, i, registry, l) ==
  IF i > Len(content) THEN l
  ELSE LET block == content[i]
           pushed == [l EXCEPT !.assistantContent = Append(@, Block(block.type, block.id))]
       IN  IF block.type = "text"
             THEN ForBlocks(content, i + 1, registry,
                            [pushed EXCEPT !.textContent = @ \o BlockText(block.id)])
             ELSE IF block.name \notin Range(registry)
                    THEN ForBlocks(content, i + 1, registry,
                                   [pushed EXCEPT !.unknown = Append(@, block.id)])
                    ELSE [pushed EXCEPT !.hit = i]

\* sendMessage returns to processMessage, which records the answer; the locals
\* of both functions go out of scope
Return(h, text, chunks, stop) ==
  /\ history' = h
  /\ pc' = "idle"
  /\ response' = NoResponse
  /\ loc' = NoLocals
  /\ streamed' = <<>>
  /\ outcome' = [kind |-> "returned", text |-> text, stop |-> stop]
  /\ cliHistory' = Append(cliHistory,
                          [role |-> "assistant",
                           content |-> IF chunks # <<>> THEN chunks ELSE text])
  /\ persisted' = Append(persisted, [sessionId |-> currentSessionId, role |-> "assistant"])

MutAfterLoopDropsFinalTurn(h, resp, l, chunks) ==
  IF resp.stop_reason = "end_turn"
    THEN Return(h, l.textContent, chunks, resp.stop_reason)
    ELSE IF resp.stop_reason # "tool_use"
           THEN Return(h, <<>>, chunks, resp.stop_reason)
           ELSE /\ history' = h
                /\ pc' = "model"
                /\ response' = resp
                /\ loc' = l
                /\ streamed' = chunks
                /\ UNCHANGED <<outcome, cliHistory, persisted>>

MutAfterLoopUnshiftsContext(h, resp, l, chunks) ==
  IF resp.stop_reason = "end_turn"
    THEN Return(Append(h, TextTurn("assistant", l.textContent)), l.textContent, chunks,
                resp.stop_reason)
    ELSE IF resp.stop_reason # "tool_use"
           THEN Return(h, <<>>, chunks, resp.stop_reason)
           ELSE /\ history' = <<TextTurn("user", SystemContext)>> \o h
                /\ pc' = "model"
                /\ response' = resp
                /\ loc' = l
                /\ streamed' = chunks
                /\ UNCHANGED <<outcome, cliHistory, persisted>>

\* the stop_reason check that follows the for loop
AfterLoop(h, resp, l, chunks) ==
  IF resp.stop_reason = "end_turn"
    THEN Return(Append(h, TextTurn("assistant", l.textContent)), l.textContent, chunks,
                resp.stop_reason)
    ELSE IF resp.stop_reason # "tool_use"
           THEN Return(h, <<>>, chunks, resp.stop_reason)
           ELSE /\ history' = h
                /\ pc' = "model"
                /\ response' = resp
                /\ loc' = l
                /\ streamed' = chunks
                /\ UNCHANGED <<outcome, cliHistory, persisted>>

\* processMessage up to the first model call of sendMessage
processMessage ==
  /\ msgs' = msgs + 1
  /\ agent' = "ready"
  /\ tools' = IF agent = "null" THEN AgentTools(logLineConfigured) ELSE tools
  /\ cliHistory' = Append(cliHistory, [role |-> "user", content |-> UserText(msgs + 1)])
  /\ persisted' = Append(persisted, [sessionId |-> currentSessionId, role |-> "user"])
  /\ history' = Append(IF agent = "null" THEN <<TextTurn("user", SystemContext)>> \o history
                                          ELSE history,
                       TextTurn("user", UserText(msgs + 1)))
  /\ response' = NoResponse
  /\ loc' = NoLocals
  /\ inv' = NoInvocation
  /\ streamed' = <<>>
  /\ outcome' = [kind |-> "running", text |-> <<>>, stop |-> "-"]
  /\ pc' = "model"
  /\ UNCHANGED <<logLineConfigured, autoApproveEnabled, clears, modelCalls,
                 currentSessionId>>

\* cli line handler, a line that is not a command, typed at the prompt
SubmitMessage ==
  /\ pc = "idle"
  /\ msgs < MaxMessages
  /\ processMessage
  /\ UNCHANGED lineFrame

\* the blocks the for loop passes over: text, and tool_use with a name the
\* registry does not hold
Skipped(registry) ==
  {s \in BlockShapes(registry) : s.type = "text" \/ s.name \notin Range(registry)}

\* the responses as far as the for loop reads them: any block after blocks it
\* passes over
ReadShapes(registry) ==
  {<<>>} \cup UNION {{p \o <<s>> : p \in [1..k -> Skipped(registry)], s \in BlockShapes(registry)} :
                       k \in 0..(MaxBlocks - 1)}

\* the model call resolves: the for loop up to tool.execute's first suspension,
\* or the whole round when no registered tool is called.  The response is drawn
\* as far as the code reads it: the blocks up to the dispatched one here, the
\* blocks behind the break (which no code inspects) and stop_reason in
\* ToolReturn; a response without a registered tool call is read whole.
ModelRespond ==
  /\ pc = "model"
  /\ modelCalls < MaxModelCalls
  /\ \E shape \in ReadShapes(tools) :
       LET content == ResponseContent(shape, modelCalls + 1)
           l == ForBlocks(content, 1, tools, NoLocals)
           chunks == streamed \o l.textContent
           step == Execute(content[l.hit].name, content[l.hit].id, autoApproveEnabled)
       IN  /\ modelCalls' = modelCalls + 1
           /\ IF l.hit = 0
                THEN \E stop \in StopReasons(content) :
                       /\ inv' = NoInvocation
                       /\ AfterLoop(history, [content |-> Kept(content), stop_reason |-> stop],
                                    l, chunks)
                ELSE /\ response' = [content |-> Kept(content), stop_reason |-> "-"]
                     /\ loc' = l
                     /\ streamed' = chunks
                     /\ inv' = step.inv
                     /\ pc' = step.pc
                     /\ UNCHANGED <<history, outcome, cliHistory, persisted>>
  /\ UNCHANGED <<logLineConfigured, agent, tools, autoApproveEnabled, msgs, clears,
                 currentSessionId>>
  /\ UNCHANGED lineFrame

MutModelFailKeepsPartialTurn ==
  /\ pc = "model"
  /\ pc' = "idle"
  /\ outcome' = [kind |-> "threw", text |-> <<>>, stop |-> "-"]
  /\ history' = Append(history, TextTurn("assistant", <<>>))
  /\ response' = NoResponse
  /\ loc' = NoLocals
  /\ streamed' = <<>>
  /\ UNCHANGED <<logLineConfigured, agent, tools, autoApproveEnabled, msgs,
                 clears, modelCalls, inv, currentSessionId, cliHistory, persisted>>
  /\ UNCHANGED lineFrame

\* the model call rejects: sendMessage throws, processMessage prints the error
ModelFail ==
  /\ pc = "model"
  /\ pc' = "idle"
  /\ outcome' = [kind |-> "threw", text |-> <<>>, stop |-> "-"]
  /\ response' = NoResponse
  /\ loc' = NoLocals
  /\ streamed' = <<>>
  /\ UNCHANGED <<logLineConfigured, agent, tools, history, autoApproveEnabled, msgs,
                 clears, modelCalls, inv, currentSessionId, cliHistory, persisted>>
  /\ UNCHANGED lineFrame

toolFrame ==
  <<logLineConfigured, agent, tools, history, autoApproveEnabled, msgs, clears,
    modelCalls, response, loc, streamed, outcome, currentSessionId, cliHistory,
    persisted, input, parked, overlaps, built>>

\* git_push: getGit().status() settles
PreGateComplete ==
  /\ pc = "pre"
  /\ \E ok \in BOOLEAN :
       LET step == IF ok THEN EnterTool(inv, autoApproveEnabled)
                         ELSE [inv |-> [inv EXCEPT !.finished = TRUE,
                                                   !.result = FailureResult(inv.tool)],
                               pc |-> "returned"]
       IN  inv' = step.inv /\ pc' = step.pc
  /\ UNCHANGED toolFrame

\* the human answers the permission prompt: rl.question resolves and
\* requestPermission returns its decision
Answer ==
  /\ pc = "prompt"
  /\ \A i \in 1..Len(parked) : parked[i].pc # "prompt"
  /\ \E line \in AnswerLines :
       inv' = [inv EXCEPT !.answered = TRUE, !.answer = line, !.permission = Decide(line)]
  /\ pc' = "gate"
  /\ UNCHANGED toolFrame

\* execute() resumes with the permission
GateReturn ==
  /\ pc = "gate"
  /\ LET step == GateContinue(inv)
     IN  inv' = step.inv /\ pc' = step.pc
  /\ UNCHANGED toolFrame

\* the tool's operations settle: all succeed, or the k-th one throws
OpComplete ==
  /\ pc = "op"
  /\ \E ok \in BOOLEAN, empty \in BOOLEAN, k \in 1..Len(ToolOps(inv.tool)) :
       /\ ok => k = Len(ToolOps(inv.tool))
       /\ empty => ok /\ inv.tool \in EmptyOutputTools
       /\ inv' = [inv EXCEPT
                    !.ops = PreGateOps(inv.tool) \o SubSeq(ToolOps(inv.tool), 1, k),
                    !.finished = TRUE,
                    !.result = IF ok THEN SuccessResult(inv.tool, empty)
                                     ELSE FailureResult(inv.tool)]
  /\ pc' = "returned"
  /\ UNCHANGED toolFrame

\* the blocks behind the break, which the for loop never reads: they are drawn
\* where the round's response is kept for the next model call, and left
\* undrawn where sendMessage returns and the response goes out of scope
Unread(read, stop) ==
  IF stop = "tool_use"
    THEN UNION {[1..r -> {"text", "tool_use"}] : r \in 0..(MaxBlocks - read)}
    ELSE {<<>>}

\* sendMessage resumes with the ToolResult: the two pushes, the break and the
\* stop_reason check
ToolReturn ==
  /\ pc = "returned"
  /\ \E stop \in StopReasons(response.content) :
       \E rest \in Unread(Len(response.content), stop) :
         LET read == Len(response.content)
             content == response.content \o
                          [i \in 1..Len(rest) |-> Block(rest[i], BlockId(modelCalls, read + i))]
         IN  AfterLoop(history \o <<BlocksTurn(loc.assistantContent),
                                    ToolResultTurn(inv.id, ToolResultContent(inv.result))>>,
                       [content |-> content, stop_reason |-> stop], loc, streamed)
  /\ inv' = NoInvocation
  /\ UNCHANGED <<logLineConfigured, agent, tools, autoApproveEnabled, msgs, clears,
                 modelCalls, currentSessionId>>
  /\ UNCHANGED lineFrame

----------------------------------------------------------------------------
(* CLI commands, typed at the prompt *)

cliFrame ==
  <<logLineConfigured, agent, tools, msgs, modelCalls, response, loc, inv, streamed,
    outcome, persisted>>

\* case '/auto': setAutoApprove(!isAutoApproveEnabled())
ToggleAuto ==
  /\ autoApproveEnabled' = ~autoApproveEnabled
  /\ UNCHANGED <<pc, history, clears, currentSessionId, cliHistory>>
  /\ UNCHANGED cliFrame

\* /auto typed at the prompt
CmdAuto ==
  /\ pc = "idle"
  /\ ToggleAuto
  /\ UNCHANGED lineFrame

MutCmdClearResetsAutoApprove ==
  /\ pc = "idle"
  /\ clears < MaxClears
  /\ clears' = clears + 1
  /\ cliHistory' = <<>>
  /\ currentSessionId' = currentSessionId + 1
  /\ history' = IF agent # "null" THEN <<>> ELSE history
  /\ autoApproveEnabled' = FALSE
  /\ UNCHANGED pc
  /\ UNCHANGED cliFrame
  /\ UNCHANGED lineFrame

\* case '/clear'
ClearSession ==
  /\ clears' = clears + 1
  /\ cliHistory' = <<>>
  /\ currentSessionId' = currentSessionId + 1
  /\ history' = IF agent # "null" THEN <<>> ELSE history
  /\ UNCHANGED <<pc, autoApproveEnabled>>
  /\ UNCHANGED cliFrame

\* /clear typed at the prompt
CmdClear ==
  /\ pc = "idle"
  /\ clears < MaxClears
  /\ ClearSession
  /\ UNCHANGED lineFrame

\* case '/exit', case '/quit': process.exit(0) ends the process, and what it
\* held in memory goes with it; the messages addMessage wrote stay on disk
ExitProcess ==
  /\ pc' = "exited"
  /\ agent' = "null"
  /\ tools' = <<>>
  /\ history' = <<>>
  /\ autoApproveEnabled' = FALSE
  /\ cliHistory' = <<>>
  /\ outcome' = [kind |-> "none", text |-> <<>>, stop |-> "-"]
  /\ UNCHANGED <<logLineConfigured, msgs, clears, modelCalls, response, loc, inv, streamed,
                 currentSessionId, persisted>>

\* /exit or /quit typed at the prompt
CmdExit ==
  /\ pc = "idle"
  /\ ExitProcess
  /\ UNCHANGED lineFrame

Next ==
  \/ SubmitMessage
  \/ ModelRespond
  \/ ModelFail
  \/ PreGateComplete
  \/ Answer
  \/ GateReturn
  \/ OpComplete
  \/ ToolReturn
  \/ CmdAuto
  \/ CmdClear
  \/ CmdExit

Spec == Init /\ [][Next]_vars

----------------------------------------------------------------------------
(* The line handler, line by line: rl.on('line') applied to the text typed at
   the prompt, with the model endpoint out of reach *)

\* await processMessage(message); one message more than MaxMessages, so that
\* a message can follow the /clear that follows a message
ReadMessage ==
  /\ pc = "idle"
  /\ msgs < MaxMessages + 1
  /\ \E line \in InputLines : Classify(line) = "message" /\ input' = line
  /\ processMessage
  /\ UNCHANGED <<parked, overlaps, built>>

\* case '/auto'
ReadAuto ==
  /\ pc = "idle"
  /\ \E line \in InputLines : Classify(line) = "auto" /\ input' = line
  /\ ToggleAuto
  /\ UNCHANGED <<parked, overlaps, built>>

\* case '/clear'
ReadClear ==
  /\ pc = "idle"
  /\ clears < MaxClears
  /\ \E line \in InputLines : Classify(line) = "clear" /\ input' = line
  /\ ClearSession
  /\ UNCHANGED <<parked, overlaps, built>>

\* case '/exit', case '/quit'
ReadExit ==
  /\ pc = "idle"
  /\ \E line \in InputLines : Classify(line) = "exit" /\ input' = line
  /\ ExitProcess
  /\ UNCHANGED <<parked, overlaps, built>>

\* if (!message), case '/help', case '/config', default: the line is answered
\* on the terminal and the prompt returns
ReadOther ==
  /\ pc = "idle"
  /\ \E line \in InputLines :
       Classify(line) \in {"empty", "help", "config", "unknown"} /\ input' = line
  /\ UNCHANGED <<pc, history, clears, currentSessionId, cliHistory, autoApproveEnabled>>
  /\ UNCHANGED cliFrame
  /\ UNCHANGED <<parked, overlaps, built>>

NextSurface ==
  \/ ReadMessage
  \/ ReadAuto
  \/ ReadClear
  \/ ReadExit
  \/ ReadOther
  \/ ModelFail

SpecSurface == Init /\ [][NextSurface]_vars

----------------------------------------------------------------------------
(* The constructor of ClaudeAgent as a function of the tool lists it is given:
   the Map it builds, and what the Map resolves *)

sessionFrame ==
  <<logLineConfigured, agent, tools, history, autoApproveEnabled, pc, msgs, clears,
    modelCalls, response, loc, inv, streamed, outcome, currentSessionId, cliHistory,
    persisted, input, parked, overlaps>>

InitRegistry == InitSession /\ built \in BuildInputs

\* new ClaudeAgent(config)
BuildTools ==
  /\ ~built.done
  /\ built' = [built EXCEPT
                 !.tools = Construct(built.localTools, built.logLineTools,
                                     built.hasLogLineClient),
                 !.done = TRUE]
  /\ UNCHANGED sessionFrame

\* const tool = this.tools.get(block.name)
GetTool ==
  /\ built.done
  /\ built.got = <<>>
  /\ \E name \in NamePool \cup {UnregisteredName} :
       built' = [built EXCEPT !.got = <<name, MapGet(built.tools, name)>>]
  /\ UNCHANGED sessionFrame

NextRegistry ==
  \/ BuildTools
  \/ GetTool

SpecRegistry == InitRegistry /\ [][NextRegistry]_vars

----------------------------------------------------------------------------
(* Lines that arrive while a message is being processed.  The line handler is
   an async function and readline is never paused: a 'line' event that fires
   while processMessage is suspended in an await runs the handler again. *)

\* the awaits at which a processMessage yields to the event loop: the model
\* call, git status, and the tool's operations
Awaiting == {"model", "pre", "op"}

\* sendMessage has been called and has not returned or thrown
InFlight == {"model", "pre", "prompt", "gate", "op", "returned", "hung"}

\* the suspended call: where it waits, and its locals
Suspended ==
  [pc |-> pc, response |-> response, loc |-> loc, inv |-> inv, streamed |-> streamed]

\* a line that is not a command arrives during an await: the handler calls
\* processMessage again, on the same agent
LineWhileBusy ==
  /\ pc \in Awaiting
  /\ overlaps < MaxOverlap
  /\ overlaps' = overlaps + 1
  /\ parked' = Append(parked, Suspended)
  /\ processMessage
  /\ UNCHANGED <<input, built>>

\* the answer to a permission prompt.  The gate's readline interface and the
\* CLI's both read process.stdin, so the line that resolves rl.question is
\* also given to the CLI's 'line' listener: a line that is not empty and not a
\* command starts a processMessage, while the answered call waits to resume.
AnswerEchoed ==
  /\ pc = "prompt"
  /\ \A i \in 1..Len(parked) : parked[i].pc # "prompt"
  /\ overlaps < MaxOverlap
  /\ overlaps' = overlaps + 1
  /\ \E line \in AnswerLines :
       /\ Classify(line) = "message"
       /\ parked' = Append(parked,
                           [Suspended EXCEPT
                              !.pc = "gate",
                              !.inv = [inv EXCEPT !.answered = TRUE, !.answer = line,
                                                  !.permission = Decide(line)]])
  /\ processMessage
  /\ UNCHANGED <<input, built>>

\* /auto arrives during an await
AutoWhileBusy ==
  /\ pc \in Awaiting
  /\ ToggleAuto
  /\ UNCHANGED lineFrame

\* /clear arrives during an await
ClearWhileBusy ==
  /\ pc \in Awaiting
  /\ clears < MaxClears
  /\ ClearSession
  /\ UNCHANGED lineFrame

\* /exit or /quit, at the prompt or during an await: process.exit(0) takes
\* every suspended call with it
ExitAnyTime ==
  /\ pc \in Awaiting \cup {"idle"}
  /\ ExitProcess
  /\ parked' = <<>>
  /\ UNCHANGED <<input, overlaps, built>>

\* the event loop turns to a suspended call whose await has settled, while
\* the current one waits or after it has finished.  rl.question keeps one
\* callback: a call that asks while another question is open is never
\* answered.
Resume ==
  /\ pc \in Awaiting \cup {"prompt", "idle"}
  /\ \E i \in 1..Len(parked) :
       /\ parked[i].pc # "hung"
       /\ pc' = parked[i].pc
       /\ response' = parked[i].response
       /\ loc' = parked[i].loc
       /\ inv' = parked[i].inv
       /\ streamed' = parked[i].streamed
       /\ parked' =
            IF pc = "idle"
              THEN SubSeq(parked, 1, i - 1) \o SubSeq(parked, i + 1, Len(parked))
              ELSE [parked EXCEPT
                      ![i] = IF pc = "prompt" /\ (\E j \in 1..Len(parked) : parked[j].pc = "prompt")
                               THEN [Suspended EXCEPT !.pc = "hung"]
                               ELSE Suspended]
  /\ UNCHANGED <<logLineConfigured, agent, tools, history, autoApproveEnabled, msgs, clears,
                 modelCalls, outcome, currentSessionId, cliHistory, persisted, input,
                 overlaps, built>>

NextLines ==
  \/ SubmitMessage
  \/ ModelRespond
  \/ ModelFail
  \/ PreGateComplete
  \/ Answer
  \/ GateReturn
  \/ OpComplete
  \/ ToolReturn
  \/ CmdAuto
  \/ CmdClear
  \/ LineWhileBusy
  \/ AnswerEchoed
  \/ AutoWhileBusy
  \/ ClearWhileBusy
  \/ ExitAnyTime
  \/ Resume

SpecLines == Init /\ [][NextLines]_vars

----------------------------------------------------------------------------
(* Properties *)

\* the tools whose execute() asks for permission
GatedTools ==
  {"read_file", "write_file", "list_directory", "execute_command", "git_commit",
   "git_create_branch", "git_push", "web_search", "fetch_webpage"}

\* the tool_result turns of a log that answer the call id
ResultTurnsFor(h, id) ==
  {k \in 1..Len(h) : h[k].kind = "tool_result" /\ h[k].content[1].tool_use_id = id}

\* the ids of the tool_use blocks held by the assistant turns of a log
CallIdsIn(h) ==
  {h[k].content[j].id : <<k, j>> \in
     {<<k, j>> \in (1..Len(h)) \X (1..MaxBlocks + 1) :
        /\ h[k].kind = "blocks"
        /\ j <= Len(h[k].content)
        /\ h[k].content[j].type = "tool_use"}}

LowerToUpper ==
  [c \in {"a", "e", "l", "s", "w", "y"} |->
     CASE c = "a" -> "A" [] c = "e" -> "E" [] c = "l" -> "L" [] c = "s" -> "S"
       [] c = "w" -> "W" [] c = "y" -> "Y"]

\* line is word in any letter case, with any white space around it
IsWordIgnoringCaseAndPadding(line, word) ==
  \E before \in 0..Len(line) :
    /\ before + Len(word) <= Len(line)
    /\ \A i \in 1..Len(line) :
         IF i <= before \/ i > before + Len(word)
           THEN line[i] \in {" ", "\t"}
           ELSE line[i] \in {word[i - before], LowerToUpper[word[i - before]]}

C2_EveryToolGated ==
  (pc = "op" /\ inv.tool \in Range(tools)) =>
     /\ inv.asked >= 1
     /\ inv.action \in {"read", "write", "delete", "execute"}
     /\ inv.permission.approved

\* C3 as stated: with auto-approve off the gate approves exactly the answer
\* lines yes, y and always, and denies every other line with the reason
\* "User denied permission".
C3_OnlyLiteralAnswersApprove ==
  (pc = "gate" /\ ~inv.flagAtAsk) =>
     /\ inv.permission.approved <=> inv.answer \in {YES, Y, ALWAYS}
     /\ ~inv.permission.approved => inv.permission.reason = DeniedReason

\* C3 amended: with auto-approve off the gate approves exactly the answer
\* lines that read yes, y or always once surrounding white space is removed
\* and letter case is ignored; every other line, the empty one included, is
\* denied with the reason "User denied permission".
C3_FailClosed ==
  (pc = "gate" /\ ~inv.flagAtAsk) =>
     /\ inv.answered
     /\ inv.permission.approved <=>
          \E word \in {YES, Y, ALWAYS} : IsWordIgnoringCaseAndPadding(inv.answer, word)
     /\ ~inv.permission.approved => inv.permission.reason = DeniedReason

\* the empty line was answered and the request denied
C3_Witness ==
  /\ pc = "gate"
  /\ ~inv.flagAtAsk
  /\ inv.answered
  /\ inv.answer = <<>>
  /\ ~inv.permission.approved

\* C4 as stated: answering always approves the request and sets the
\* auto-approve flag.
C4_AlwaysSetsFlag ==
  (pc = "gate" /\ inv.answered /\ Normalize(inv.answer) = ALWAYS) =>
     (inv.permission.approved /\ autoApproveEnabled)

\* C5 as stated: answering never terminates the process at once.
C5_NeverTerminates ==
  (inv.answered /\ Normalize(inv.answer) = NEVER) => pc = "exited"

\* C6: a requestPermission call made while the auto-approve flag is set
\* returns approved=true for its action kind with one audit line, without a
\* prompt and without reading an answer line.
C6_AutoApproveSkipsPrompt ==
  (inv.asked >= 1 /\ inv.flagAtAsk) =>
     /\ inv.permission.approved
     /\ inv.prompts = 0
     /\ ~inv.answered
     /\ pc # "prompt"
     /\ Len(inv.audit) = 1

\* write_file has written under auto-approve without a prompt
C6_Witness ==
  /\ pc = "returned"
  /\ inv.tool = "write_file"
  /\ inv.flagAtAsk
  /\ inv.prompts = 0
  /\ inv.ops = <<"fs.mkdir", "fs.writeFile">>
  /\ inv.result.success

\* C7 as stated: when the next model call is issued, every tool_use block of
\* the response just handled has exactly one tool_result turn in the log.
C7_EveryCallAnswered ==
  pc = "model" =>
    \A i \in 1..Len(response.content) :
      response.content[i].type = "tool_use" =>
        Cardinality(ResultTurnsFor(history, response.content[i].id)) = 1

\* C8 as stated: when a model call is issued or sendMessage has returned, each
\* tool_use id held by the log's assistant turns has exactly one tool_result
\* turn, and the log holds no other tool_result turn.
C8_NoOrphanedCallIds ==
  (pc = "model" \/ (pc = "idle" /\ outcome.kind = "returned")) =>
    /\ \A id \in CallIdsIn(history) : Cardinality(ResultTurnsFor(history, id)) = 1
    /\ Cardinality({k \in 1..Len(history) : history[k].kind = "tool_result"})
         = Cardinality(CallIdsIn(history))

\* C9 as stated: when the loop goes on after a response that called an
\* unregistered tool, the log holds a tool_result turn for that call id with
\* the error UnknownTool.
C9_UnknownToolAnswered ==
  pc = "model" =>
    \A j \in 1..Len(loc.unknown) :
      \E k \in ResultTurnsFor(history, loc.unknown[j]) :
        history[k].content[1].content = <<"Error: ", "UnknownTool">>

\* C10 as stated: when a tool call was denied at the prompt, its ToolResult is
\* the failure "User denied permission", sendMessage appends the assistant
\* turn and one tool_result turn for the call id, and goes on to the next
\* model call.
C10_DenialContinuesLoop ==
  [][(pc = "returned" /\ inv.asked = 1 /\ inv.prompts = 1 /\ ~inv.permission.approved) =>
       /\ ~inv.result.success
       /\ inv.result.error = DeniedReason
       /\ history' = history \o
            <<BlocksTurn(loc.assistantContent),
              ToolResultTurn(inv.id, <<"Error: ", DeniedReason>>)>>
       /\ Cardinality(ResultTurnsFor(history', inv.id)) = 1
       /\ pc' = "model"]_vars

\* C11 as stated: when an operation of a tool failed or threw, execute()
\* returns a ToolResult with success=false and an error text, sendMessage
\* appends the assistant turn and one tool_result turn for the call id, and
\* goes on to the next model call.
C11_FailureContinuesLoop ==
  [][(pc = "returned" /\ inv.ops # <<>> /\ inv.result = FailureResult(inv.tool)) =>
       /\ ~inv.result.success
       /\ inv.result.error # JsUndefined
       /\ history' = history \o
            <<BlocksTurn(loc.assistantContent),
              ToolResultTurn(inv.id, <<"Error: ", inv.result.error>>)>>
       /\ pc' = "model"]_vars

\* C12: when the model call fails, sendMessage throws to its caller and the
\* log keeps exactly the turns it held when the call was issued: no assistant
\* turn and no tool_result turn is appended, and processMessage records no
\* answer.
C12_ModelFailureAppendsNothing ==
  [][ModelFail =>
       /\ outcome'.kind = "threw"
       /\ history' = history
       /\ cliHistory' = cliHistory
       /\ persisted' = persisted]_vars

\* the model call that follows a tool round has failed: the log ends with the
\* tool_result turn of that round
C12_Witness ==
  /\ pc = "idle"
  /\ outcome.kind = "threw"
  /\ modelCalls = 1
  /\ history # <<>>
  /\ history[Len(history)].kind = "tool_result"

\* plain user message: a user turn whose content is text
IsUserMessage(turn) == turn.role = "user" /\ turn.kind = "text"

\* C13 as stated: in every reachable state the log is causally ordered: two
\* plain user messages are never adjacent, a tool_result turn immediately
\* follows the assistant turn that holds its tool call, and once sendMessage
\* has returned the log does not end with an unanswered user message.
C13_TurnOrderCausal ==
  /\ \A k \in 1..(Len(history) - 1) :
       ~(IsUserMessage(history[k]) /\ IsUserMessage(history[k + 1]))
  /\ \A k \in 1..Len(history) :
       history[k].kind = "tool_result" =>
         /\ k > 1
         /\ history[k - 1].kind = "blocks"
         /\ \E j \in 1..Len(history[k - 1].content) :
              /\ history[k - 1].content[j].type = "tool_use"
              /\ history[k - 1].content[j].id = history[k].content[1].tool_use_id
  /\ (pc = "idle" /\ outcome.kind = "returned" /\ history # <<>>) =>
       history[Len(history)].role = "assistant"

\* C14: when the model call resolves with stop reason end_turn and no tool
\* call, sendMessage appends one assistant turn holding the text of that
\* response (the text its blocks streamed), makes no further model call and
\* returns that text.
C14_EndTurnAppendsFinalText ==
  [][(pc = "model" /\ outcome' # outcome /\ outcome'.stop = "end_turn") =>
       /\ pc' = "idle"
       /\ outcome'.kind = "returned"
       /\ modelCalls' = modelCalls + 1
       /\ history' = Append(history, TextTurn("assistant", outcome'.text))
       /\ cliHistory' = Append(cliHistory,
                               [role |-> "assistant", content |-> streamed \o outcome'.text])]_vars

\* sendMessage has returned the text of a two-block response on end_turn
C14_Witness ==
  /\ pc = "idle"
  /\ outcome.kind = "returned"
  /\ outcome.stop = "end_turn"
  /\ Len(outcome.text) = 2
  /\ history # <<>>
  /\ history[Len(history)] = TextTurn("assistant", outcome.text)

\* C15 as stated: sendMessage returns normally only when no failure was left
\* unreported: the stop reason of the last response is end_turn (any other
\* stop reason but tool_use is a failure, and it is raised, not returned), and
\* every unregistered tool call of the round just handled has a tool_result
\* turn in the log.
C15_NothingSilentlyDiscarded ==
  [][(outcome' # outcome /\ outcome'.kind = "returned") =>
       /\ outcome'.stop = "end_turn"
       /\ \A j \in 1..Len(loc.unknown) : ResultTurnsFor(history', loc.unknown[j]) # {}]_vars

\* C17: in every model call the names offered to the model are exactly the
\* names the agent resolves, each of them has an executor, and the three
\* logline_* names are among them if and only if a LogLine client was
\* configured when the agent was constructed.
C17_OfferedEqualsResolvable ==
  pc = "model" =>
    /\ Offered(tools) =
         {n \in Range(allTools) \cup Range(createLogLineTools) \cup {UnregisteredName} :
            Resolves(tools, n)}
    /\ \A n \in Offered(tools) : ToolOps(n) # <<>>
    /\ \A n \in Range(createLogLineTools) : n \in Offered(tools) <=> logLineConfigured
    /\ Range(allTools) \subseteq Offered(tools)

\* a logline tool that was offered is resolved and executing
C17_Witness ==
  /\ pc = "op"
  /\ logLineConfigured
  /\ inv.tool = "logline_memory_search"
  /\ inv.tool \in Offered(tools)

ReservedTokens == {SlashHelp, SlashConfig, SlashAuto, SlashClear, SlashExit}

\* what a line that becomes a user turn does to the agent's log
UserTurnAppended ==
  /\ pc' = "model"
  /\ msgs' = msgs + 1
  /\ history' = Append(IF agent = "null" THEN <<TextTurn("user", SystemContext)>> ELSE history,
                       TextTurn("user", UserText(msgs + 1)))

CallsInFlight ==
  (IF pc \in InFlight THEN 1 ELSE 0)
    + Cardinality({i \in 1..Len(parked) : parked[i].pc \in InFlight})

\* C16: whatever lines arrive and whenever, at most one sendMessage (with its
\* model call, permission prompt or tool execution) is in flight.
C16_AtMostOneInFlight == CallsInFlight <= 1

\* C18: a step that submits no user message leaves an empty conversation log
\* empty, and while the CLI's own log is empty (cleared, nothing submitted
\* since) such a step persists nothing.
C18_ClearedLogStaysEmpty ==
  [][msgs' = msgs /\ pc # "exited" /\ pc' # "exited" =>
       /\ history = <<>> => history' = <<>>
       /\ cliHistory = <<>> => cliHistory' = <<>> /\ persisted' = persisted]_vars

\* C21: an exit command never cuts an approved tool execution short: the
\* process does not end while the operations of an approved tool are running.
C21_ExitWaitsForTool ==
  [][pc = "op" /\ inv.permission.approved /\ ~inv.finished => pc' # "exited"]_vars

\* the id of the first tool_use block of a response's content, 0 if it has none
FirstToolUseId(content) ==
  IF HasToolUse(content)
    THEN content[CHOOSE i \in 1..Len(content) :
                   /\ content[i].type = "tool_use"
                   /\ \A j \in 1..(i - 1) : content[j].type # "tool_use"].id
    ELSE 0

\* C22: an executor is invoked only by the step that reads a model response,
\* once, and the call it resolves is the first tool_use block of that response.
C22_FirstToolCallResolved ==
  [][inv'.tool # "-" /\ inv.tool = "-" =>
       /\ pc = "model"
       /\ modelCalls' = modelCalls + 1
       /\ inv'.id = FirstToolUseId(response'.content)]_vars

\* C26: when sendMessage goes on to the next model call, every text block of
\* the response it has just handled has been given to the stream callback, in
\* the order of the blocks.
C26_EveryTextBlockStreamed ==
  pc = "model" =>
    LET texts == SelectSeq(response.content, LAMBDA b : b.type = "text")
        given == SelectSeq(streamed, LAMBDA t : \E i \in 1..Len(texts) : BlockText(texts[i].id) = <<t>>)
    IN  given = [i \in 1..Len(texts) |-> BlockText(texts[i].id)[1]]

\* C27: a round of sendMessage's loop that goes on to another model call has
\* appended at least one turn, so the next call sends a longer history.
C27_EveryRoundAppends ==
  [][(/\ pc \in {"model", "returned"}
      /\ pc' = "model"
      /\ pc = "model" => modelCalls' # modelCalls)
       => Len(history') > Len(history)]_vars

\* C30: the content of every tool_result turn of the log is defined text.
C30_ToolResultContentDefined ==
  \A k \in 1..Len(history) :
    history[k].kind = "tool_result" =>
      \A j \in 1..Len(history[k].content[1].content) :
        history[k].content[1].content[j] # JsUndefined

\* a step that issues a model call: the first call of a sendMessage, or the
\* call of the next round of its loop
CallMade ==
  /\ pc' = "model"
  /\ msgs' # msgs \/ modelCalls' # modelCalls \/ pc = "returned"

\* C29: the history sent with every model call starts with the system-context
\* turn set at agent initialization.
C29_SystemContextFirst ==
  [][CallMade => history' # <<>> /\ history'[1] = TextTurn("user", SystemContext)]_vars

\* C28: the line that answers a permission prompt goes to the gate only: no
\* step taken while the prompt is open submits a user message or changes
\* either log.
C28_AnswerOnlyToGate ==
  [][pc = "prompt" =>
       msgs' = msgs /\ history' = history /\ cliHistory' = cliHistory
         /\ persisted' = persisted]_vars

\* the registrations of a construction, in the order the constructor makes them
Registrations(b) ==
  b.localTools \o (IF b.hasLogLineClient THEN b.logLineTools ELSE <<>>)

\* C25: the Map the constructor builds holds exactly one entry for each
\* registered name, that entry is the tool of the last registration under the
\* name (local list first, LogLine list second, so a LogLine tool replaces a
\* local one of the same name), and get(name) returns the one tool that is
\* offered under that name, or undefined for a name that is not offered; the
\* names stand in the order of their first registration.
C25_LaterRegistrationWins ==
  built.done =>
    LET regs == Registrations(built)
        m == built.tools
        last(n) == CHOOSE k \in 1..Len(regs) :
                     regs[k].name = n /\ \A j \in (k + 1)..Len(regs) : regs[j].name # n
    IN  /\ \A i, j \in 1..Len(m) : m[i].name = m[j].name => i = j
        /\ {m[i].name : i \in 1..Len(m)} = {regs[k].name : k \in 1..Len(regs)}
        /\ \A i \in 1..Len(m) : m[i] = regs[last(m[i].name)]
        /\ [i \in 1..Len(m) |-> m[i].name]
             = MapSetAll(<<>>, [k \in 1..Len(regs) |-> regs[k].name])
        /\ built.got # <<>> =>
             IF built.got[1] \in Offered([i \in 1..Len(m) |-> m[i].name])
               THEN /\ built.got[2] \in Range(m)
                    /\ built.got[2].name = built.got[1]
               ELSE built.got[2] = JsUndefined

\* C25 witness: a name registered by the local list and again by the LogLine
\* list resolves to the LogLine tool, which stands where the local one stood.
C25_Witness ==
  /\ built.done
  /\ built.got # <<>>
  /\ \E i \in 1..Len(built.tools) : built.tools[i].name = built.got[1]
  /\ built.got[2].from = "logline"
  /\ Len(built.tools) = 2
  /\ built.tools[1] = built.got[2]
  /\ built.localTools # <<>>
  /\ built.localTools[1].name = built.got[1]

\* s is a prefix of t
IsPrefix(s, t) == Len(s) <= Len(t) /\ SubSeq(t, 1, Len(s)) = s

RequestTurns == history

\* C24: the turn list handed to a model call is not changed while the call is
\* pending: as long as a suspended sendMessage waits for its model call (and
\* no /clear has replaced the array), no step changes the list it handed over.
C24_RequestListIsCopy ==
  [][(/\ clears' = 0
      /\ \E i \in 1..Len(parked) :
           /\ parked[i].pc = "model"
           /\ i <= Len(parked')
           /\ parked'[i] = parked[i])
       => RequestTurns' = RequestTurns]_vars

====
